---- MODULE Spec2Model ----
(***************************************************************************)
(* Chef-Bot: the generate-recipe edge function (the recipe proxy).         *)
(*                                                                         *)
(* The hosting platform runs the handler passed to serve() once per HTTP   *)
(* request; invocations run concurrently and interleave at the handler's   *)
(* await points.  Every JavaScript string is modelled as a sequence of     *)
(* string tokens, so that template strings and join() are concatenations   *)
(* and "appears in" is membership.                                         *)
(***************************************************************************)
EXTENDS Integers, Sequences, FiniteSets, TLC

\* Number of handler invocations the platform starts.
MaxInv == 2

Invocations == 1..MaxInv

VARIABLES
    apiKey,     \* process configuration: the value of LOVABLE_API_KEY
    pc,         \* pc[i]: where invocation i's handler is suspended
    req,        \* req[i]: the HTTP request invocation i serves
    keySeen,    \* keySeen[i]: what Deno.env.get returned to invocation i
    sent,       \* sent[i]: the upstream requests invocation i has issued
    upstream,   \* upstream[i]: how invocation i's upstream call settled
    bodyRead,   \* bodyRead[i]: whether invocation i called req.json()
    resp,       \* resp[i]: the Response invocation i returned
    log,        \* log[i]: the console lines invocation i wrote
    rows,       \* saved_recipes: rows[id] is the row with that id, if any
    lastOp,     \* the last statement run on saved_recipes and its result
    ingredients,        \* Index page: the ingredient list
    currentIngredient,  \* Index page: the text of the input field
    isLoading,          \* Index page: a generation is shown as running
    inFlight,           \* Index page: functions.invoke calls not yet settled
    lastInvoke,         \* Index page: the body of the latest functions.invoke
    route,              \* the route shown: "/" is the Index page
    pageAct,            \* Index page: the handler that ran last
    recipes,    \* SavedRecipes page: the list shown
    fetched,    \* SavedRecipes page: what fetchSavedRecipes resolved to
    deleting,   \* SavedRecipes page: handleDelete calls awaiting the store
    deleted     \* SavedRecipes page: ids whose delete resolved without error

proxyVars == <<apiKey, pc, req, keySeen, sent, upstream, bodyRead, resp, log>>
storeVars == <<rows, lastOp>>
pageVars == <<ingredients, currentIngredient, isLoading, inFlight, lastInvoke,
              route, pageAct>>
savedVars == <<recipes, fetched, deleting, deleted>>
otherVars == <<storeVars, pageVars, savedVars>>
nonStoreVars == <<proxyVars, pageVars, savedVars>>
nonPageVars == <<proxyVars, storeVars, savedVars>>
nonSavedVars == <<proxyVars, storeVars, pageVars>>

vars == <<proxyVars, otherVars>>

----------------------------------------------------------------------------
(* Range of a sequence. *)
Range(s) == {s[k] : k \in 1..Len(s)}

----------------------------------------------------------------------------
(* Process configuration.  Deno.env.get yields undefined for an unset      *)
(* variable; a variable can also be set to the empty string.               *)
Undefined == <<>>
EnvValues == {Undefined, <<"">>, <<"sk-lovable">>}

\* JavaScript's !value for a string-or-undefined value.
Falsy(v) == v = Undefined \/ v = <<"">>

----------------------------------------------------------------------------
(* HTTP requests the endpoint receives.  A body is JSON text that req.json *)
(* either cannot parse, or parses to an object whose `ingredients` is an   *)
(* array of strings or is missing.                                         *)
IngredientLists == {<<>>, <<"chicken">>, <<"chicken", "rice">>}

Bodies ==
    {[parses |-> FALSE, hasList |-> FALSE, ingredients |-> <<>>],
     [parses |-> TRUE, hasList |-> FALSE, ingredients |-> <<>>]}
    \cup {[parses |-> TRUE, hasList |-> TRUE, ingredients |-> l] :
             l \in IngredientLists}

Methods == {"OPTIONS", "POST"}

Requests == [method : Methods, body : Bodies]

NoRequest == [method |-> "none",
              body |-> [parses |-> FALSE, hasList |-> FALSE, ingredients |-> <<>>]]

----------------------------------------------------------------------------
(* JSON values, as far as the Recipe shape looks at them: the kind of the  *)
(* value and, for an object, the JSON type found under each Recipe field.  *)
RecipeFields == {"name", "cookingTime", "difficulty", "servings", "macros",
                 "macros.calories", "macros.protein", "macros.carbs",
                 "macros.fats", "ingredients", "instructions"}

JObject(types) == [kind |-> "object", types |-> types]
NoValue == [kind |-> "none", types |-> [f \in RecipeFields |-> "absent"]]

\* The type under each field of the structure the system prompt asks for.
PromptShape ==
    [f \in RecipeFields |->
        CASE f \in {"name", "difficulty"} -> "string"
          [] f \in {"cookingTime", "servings", "macros.calories",
                    "macros.protein", "macros.carbs", "macros.fats"} -> "integer"
          [] f = "macros" -> "object"
          [] OTHER -> "array<string>"]

\* Message contents the upstream model may produce.
FullRecipeText == "{\"name\":\"Chicken Rice Bowl\",\"cookingTime\":30,\"difficulty\":\"Easy\",\"servings\":4,\"macros\":{\"calories\":450,\"protein\":35,\"carbs\":40,\"fats\":15},\"ingredients\":[\"chicken\",\"rice\"],\"instructions\":[\"Cook.\"]}"
NoMacrosText == "{\"name\":\"Chicken Rice Bowl\",\"cookingTime\":30,\"difficulty\":\"Easy\",\"servings\":4,\"ingredients\":[\"chicken\",\"rice\"],\"instructions\":[\"Cook.\"]}"
TimeAsStringText == "{\"name\":\"Chicken Rice Bowl\",\"cookingTime\":\"30 minutes\",\"difficulty\":\"Easy\",\"servings\":4,\"macros\":{\"calories\":450,\"protein\":35,\"carbs\":40,\"fats\":15},\"ingredients\":[\"chicken\",\"rice\"],\"instructions\":[\"Cook.\"]}"
ProseText == "Here is your recipe: Chicken Rice Bowl"

Contents == {FullRecipeText, NoMacrosText, TimeAsStringText, ProseText}

----------------------------------------------------------------------------
(* Exceptions: what is thrown, and whether it is an instance of Error.     *)
Exception(isError, message) == [isError |-> isError, message |-> message]

SyntaxError == Exception(TRUE, <<"Unexpected token in JSON">>)
TypeErrorOf(what) == Exception(TRUE, <<"Cannot read properties of undefined (reading '", what, "')">>)

\* JSON.parse on a message content: the parsed value, or a SyntaxError.
JSONParse(text) ==
    CASE text = FullRecipeText ->
            [ok |-> TRUE, value |-> JObject(PromptShape)]
      [] text = NoMacrosText ->
            [ok |-> TRUE,
             value |-> JObject([f \in RecipeFields |->
                          IF f \in {"macros", "macros.calories", "macros.protein",
                                    "macros.carbs", "macros.fats"}
                          THEN "absent" ELSE PromptShape[f]])]
      [] text = TimeAsStringText ->
            [ok |-> TRUE,
             value |-> JObject([PromptShape EXCEPT !["cookingTime"] = "string"])]
      [] OTHER ->
            [ok |-> FALSE, value |-> NoValue]

----------------------------------------------------------------------------
(* How an upstream call settles.  The call is the fetch together with the  *)
(* reading of the response body: it is rejected (a transport failure at    *)
(* any point), or it returns a status and a body.  A body is plain text, a *)
(* completion with no choices, or a completion whose first choice's        *)
(* message content is `text`.                                              *)
UpstreamBody(form, text) == [form |-> form, text |-> text]

ErrorDetail == "upstream quota detail"

ErrorBodies == {UpstreamBody("text", ErrorDetail)}

OkBodies ==
    {UpstreamBody("text", "<html>gateway</html>"), UpstreamBody("nochoices", "")}
    \cup {UpstreamBody("completion", c) : c \in Contents}

Statuses == {200, 402, 429, 500, 503}

\* response.ok
IsOk(status) == status >= 200 /\ status <= 299

NetworkFailures ==
    {[kind |-> "rejected", reason |-> Exception(e, <<"error sending request">>),
      status |-> 0, body |-> UpstreamBody("none", "")] : e \in BOOLEAN}

UpstreamResponses ==
    {[kind |-> "response", reason |-> Exception(TRUE, <<>>),
      status |-> s, body |-> b] :
        s \in Statuses,
        b \in OkBodies \cup ErrorBodies}

Outcomes ==
    NetworkFailures
    \cup {u \in UpstreamResponses :
            IF IsOk(u.status) THEN u.body \in OkBodies ELSE u.body \in ErrorBodies}

NoOutcome == [kind |-> "none", reason |-> Exception(TRUE, <<>>),
              status |-> 0, body |-> UpstreamBody("none", "")]

----------------------------------------------------------------------------
(* Responses.  A body is empty, { error: message } or { recipe: value }.   *)
corsHeaders ==
    ("Access-Control-Allow-Origin" :> "*")
    @@ ("Access-Control-Allow-Headers" :>
            "authorization, x-client-info, apikey, content-type")

\* { ...corsHeaders, 'Content-Type': 'application/json' }
JsonHeaders == ("Content-Type" :> "application/json") @@ corsHeaders

EmptyBody == [kind |-> "empty", error |-> <<>>, recipe |-> NoValue]
ErrorBody(message) == [kind |-> "error", error |-> message, recipe |-> NoValue]
RecipeBody(value) == [kind |-> "recipe", error |-> <<>>, recipe |-> value]

Response(status, headers, body) ==
    [status |-> status, headers |-> headers, body |-> body]

NoResponse == Response(0, <<>>, EmptyBody)

\* new Response(null, { headers: corsHeaders }): the status defaults to 200.
OptionsResponse == Response(200, corsHeaders, EmptyBody)

RateLimitMessage == <<"Rate limit exceeded. Please try again later.">>
PaymentMessage == <<"Payment required. Please add credits to your workspace.">>
NotConfiguredMessage == <<"LOVABLE_API_KEY is not configured">>

ErrorLine(exc) == <<"error", "Error in generate-recipe function:">> \o exc.message

\* Variant of the catch block that answers without the CORS headers.
CatchResponseNoCors(exc) ==
    Response(500, ("Content-Type" :> "application/json"),
             ErrorBody(IF exc.isError THEN exc.message ELSE <<"An error occurred">>))

\* The catch block: the exception's message, or the fallback string.
CatchResponse(exc) ==
    Response(500, JsonHeaders,
             ErrorBody(IF exc.isError THEN exc.message ELSE <<"An error occurred">>))

\* A handler step's outcome when the try block throws `exc`.
Thrown(exc, logged) == [resp |-> CatchResponse(exc), log |-> logged \o <<ErrorLine(exc)>>]
Returned(response, logged) == [resp |-> response, log |-> logged]

----------------------------------------------------------------------------
(* The upstream request.                                                   *)
RECURSIVE JoinDistinct(_, _)
\* Variant of join that drops an element that occurs again later.
JoinDistinct(list, sep) ==
    IF Len(list) = 0 THEN <<>>
    ELSE IF Len(list) = 1 THEN <<list[1]>>
    ELSE IF list[1] \in Range(Tail(list)) THEN JoinDistinct(Tail(list), sep)
    ELSE <<list[1], sep>> \o JoinDistinct(Tail(list), sep)

RECURSIVE Join(_, _)
\* Array.prototype.join: the elements in order, the separator between them.
Join(list, sep) ==
    IF Len(list) = 0 THEN <<>>
    ELSE IF Len(list) = 1 THEN <<list[1]>>
    ELSE <<list[1], sep>> \o Join(Tail(list), sep)

systemPrompt == "You are an expert chef AI that creates delicious recipes based on available ingredients."

UserPrompt(list) ==
    <<"Create a recipe using these ingredients: ">> \o Join(list, ", ")

UpstreamRequest(key, list) ==
    [url |-> "https://ai.gateway.lovable.dev/v1/chat/completions",
     method |-> "POST",
     authorization |-> <<"Bearer ">> \o key,
     model |-> "google/gemini-2.5-flash",
     system |-> systemPrompt,
     user |-> UserPrompt(list),
     response_format |-> "json_object"]

\* Variant that issues the upstream call a second time.
FetchCallsTwice(key, list) ==
    <<UpstreamRequest(key, list), UpstreamRequest(key, list)>>

\* The fetch calls the handler issues once the prompt is built.
FetchCalls(key, list) == <<UpstreamRequest(key, list)>>

----------------------------------------------------------------------------
(* The handler, between its await points.                                  *)

\* Variant with no pre-flight branch.
NoPreflight(r) == FALSE

\* Entry: an OPTIONS request is answered at once; any other calls req.json().
IsPreflight(r) == r.method = "OPTIONS"

\* Variant that never finds the credential missing.
CredentialNeverMissing(key) == FALSE

\* if (!LOVABLE_API_KEY)
CredentialMissing(key) == Falsy(key)

\* From the settling of req.json() to the fetch call, or to the catch block.
\* A step yields the handler's next position, whether the credential was
\* read, the fetch calls issued, the response returned and the lines logged.
AfterBody(body, key) ==
    LET shown == IF body.hasList THEN body.ingredients ELSE <<"undefined">>
        logged == <<<<"log", "Generating recipe for ingredients:">> \o shown>>
        failed(exc, read, lines) ==
            [pc |-> "done", keyRead |-> read, sent |-> <<>>,
             resp |-> Thrown(exc, lines).resp, log |-> Thrown(exc, lines).log]
    IN  IF ~body.parses
        THEN failed(SyntaxError, FALSE, <<>>)
        ELSE IF CredentialMissing(key)
        THEN failed(Exception(TRUE, NotConfiguredMessage), TRUE, logged)
        ELSE IF ~body.hasList
        THEN failed(TypeErrorOf("join"), TRUE, logged)
        ELSE [pc |-> "awaitFetch", keyRead |-> TRUE,
              sent |-> FetchCalls(key, body.ingredients),
              resp |-> NoResponse, log |-> logged]

\* Variant without the 429 branch.
NotOkResponseNo429(status, errorText, logged) ==
    IF status = 402
    THEN Returned(Response(402, JsonHeaders, ErrorBody(PaymentMessage)), logged)
    ELSE Thrown(Exception(TRUE, <<"AI gateway error: ", ToString(status)>>), logged)

\* Variant without the 402 branch.
NotOkResponseNo402(status, errorText, logged) ==
    IF status = 429
    THEN Returned(Response(429, JsonHeaders, ErrorBody(RateLimitMessage)), logged)
    ELSE Thrown(Exception(TRUE, <<"AI gateway error: ", ToString(status)>>), logged)

\* Variant that puts the upstream error text into the thrown message.
NotOkResponseWithBody(status, errorText, logged) ==
    IF status = 429
    THEN Returned(Response(429, JsonHeaders, ErrorBody(RateLimitMessage)), logged)
    ELSE IF status = 402
    THEN Returned(Response(402, JsonHeaders, ErrorBody(PaymentMessage)), logged)
    ELSE Thrown(Exception(TRUE, <<"AI gateway error: ", ToString(status), " ", errorText>>),
                logged)

\* if (!response.ok) { ... }: errorText has been read and logged.
NotOkResponse(status, errorText, logged) ==
    IF status = 429
    THEN Returned(Response(429, JsonHeaders, ErrorBody(RateLimitMessage)), logged)
    ELSE IF status = 402
    THEN Returned(Response(402, JsonHeaders, ErrorBody(PaymentMessage)), logged)
    ELSE Thrown(Exception(TRUE, <<"AI gateway error: ", ToString(status)>>), logged)

\* Variant that answers 200 whether or not the content parses.
RecipeResponseLenient(content, logged) ==
    Returned(Response(200, JsonHeaders, RecipeBody(JSONParse(content).value)), logged)

\* Variant that rejects a parsed value not of the prompt's shape.
RecipeResponseValidated(content, logged) ==
    LET recipeData == JSONParse(content)
    IN  IF recipeData.ok /\ recipeData.value = JObject(PromptShape)
        THEN Returned(Response(200, JsonHeaders, RecipeBody(recipeData.value)), logged)
        ELSE Thrown(SyntaxError, logged)

\* JSON.parse(data.choices[0].message.content) and the 200 response.
RecipeResponse(content, logged) ==
    LET recipeData == JSONParse(content)
    IN  IF recipeData.ok
        THEN Returned(Response(200, JsonHeaders, RecipeBody(recipeData.value)), logged)
        ELSE Thrown(SyntaxError, logged)

\* From the settling of fetch to the returned response.
AfterUpstream(u) ==
    IF u.kind = "rejected" THEN Thrown(u.reason, <<>>)
    ELSE IF ~IsOk(u.status)
    THEN NotOkResponse(u.status, u.body.text,
             <<<<"error", "AI gateway error:", ToString(u.status), u.body.text>>>>)
    ELSE CASE u.body.form = "text" -> Thrown(SyntaxError, <<>>)
           [] u.body.form = "nochoices" ->
                Thrown(TypeErrorOf("message"), <<<<"log", "AI response received">>>>)
           [] OTHER ->
                RecipeResponse(u.body.text, <<<<"log", "AI response received">>>>)

----------------------------------------------------------------------------
(* The saved_recipes table under row level security.  Of a row, the id,   *)
(* the owner and the favorite flag are kept; the other columns are data    *)
(* that no policy reads.  A statement runs as an authenticated user, whose *)
(* identity is auth.uid(), and carries an id filter.                       *)
MaxRows == 2

Ids == 1..MaxRows
Users == {"alice", "bob"}

NoRow == [present |-> FALSE, user_id |-> "", is_favorite |-> FALSE]
Row(owner, favorite) == [present |-> TRUE, user_id |-> owner, is_favorite |-> favorite]

\* FOR SELECT USING (auth.uid() = user_id)
SelectUsing(uid, row) == uid = row.user_id

\* FOR INSERT WITH CHECK (auth.uid() = user_id)
InsertCheck(uid, row) == uid = row.user_id

\* FOR UPDATE USING (auth.uid() = user_id)
UpdateUsing(uid, row) == uid = row.user_id

\* Variant of the update policy's check on the new row that admits any row.
UpdateCheckAny(uid, row) == TRUE

\* An UPDATE policy with no WITH CHECK applies its USING to the new row.
UpdateCheck(uid, row) == UpdateUsing(uid, row)

\* FOR DELETE USING (auth.uid() = user_id)
DeleteUsing(uid, row) == uid = row.user_id

\* What a statement hands back: the rows it returns, with their ids.
Shown(ids) == {[id |-> id, user_id |-> rows[id].user_id,
                is_favorite |-> rows[id].is_favorite] : id \in ids}

Op(caller, kind, filter, error, returned) ==
    [caller |-> caller, kind |-> kind, filter |-> filter, error |-> error,
     returned |-> returned]

EmptyTable ==
    /\ rows = [id \in Ids |-> NoRow]
    /\ lastOp = Op("", "none", {}, FALSE, {})

\* select * where id in filter
Select(uid, filter) ==
    /\ lastOp' = Op(uid, "select", filter, FALSE,
                    Shown({id \in filter : rows[id].present /\ SelectUsing(uid, rows[id])}))
    /\ UNCHANGED <<rows, nonStoreVars>>

\* insert a row with the given id, owner and flag
Insert(uid, id, owner, favorite) ==
    LET new == Row(owner, favorite)
    IN  /\ IF InsertCheck(uid, new) /\ ~rows[id].present
           THEN /\ rows' = [rows EXCEPT ![id] = new]
                /\ lastOp' = Op(uid, "insert", {id}, FALSE, {})
           ELSE /\ lastOp' = Op(uid, "insert", {id}, TRUE, {})
                /\ UNCHANGED rows
        /\ UNCHANGED nonStoreVars

\* update ... set user_id = owner, is_favorite = favorite where id in filter
Update(uid, filter, owner, favorite) ==
    LET targets == {id \in filter : /\ rows[id].present
                                    /\ SelectUsing(uid, rows[id])
                                    /\ UpdateUsing(uid, rows[id])}
        new == Row(owner, favorite)
    IN  /\ IF targets = {} \/ UpdateCheck(uid, new)
           THEN /\ rows' = [id \in Ids |-> IF id \in targets THEN new ELSE rows[id]]
                /\ lastOp' = Op(uid, "update", filter, FALSE, {})
           ELSE /\ lastOp' = Op(uid, "update", filter, TRUE, {})
                /\ UNCHANGED rows
        /\ UNCHANGED nonStoreVars

\* delete where id in filter, as handleDelete does with one id
Delete(uid, filter) ==
    LET targets == {id \in filter : /\ rows[id].present
                                    /\ SelectUsing(uid, rows[id])
                                    /\ DeleteUsing(uid, rows[id])}
    IN  /\ rows' = [id \in Ids |-> IF id \in targets THEN NoRow ELSE rows[id]]
        /\ lastOp' = Op(uid, "delete", filter, FALSE, {})
        /\ UNCHANGED nonStoreVars

StoreNext ==
    \/ \E uid \in Users, filter \in SUBSET Ids : Select(uid, filter)
    \/ \E uid \in Users, id \in Ids, owner \in Users, favorite \in BOOLEAN :
          Insert(uid, id, owner, favorite)
    \/ \E uid \in Users, filter \in SUBSET Ids, owner \in Users, favorite \in BOOLEAN :
          Update(uid, filter, owner, favorite)
    \/ \E uid \in Users, filter \in SUBSET Ids : Delete(uid, filter)

----------------------------------------------------------------------------
(* The Index page.  A text is a sequence of characters.  A handler may run *)
(* in any state in which the page is shown: the `disabled` attributes of   *)
(* the buttons are not relied upon, which only adds behaviours.  Toasts    *)
(* are kept with the handler that raised them.  Leaving for "/recipe"      *)
(* unmounts the page; a later visit mounts it anew, in its initial state.  *)
MaxInputLen == 3
MaxIngredients == 3
MaxPending == 2

Blank == " "
Chars == {Blank, "a"}

Texts == UNION {[1..n -> Chars] : n \in 0..MaxInputLen}

RECURSIVE TrimStart(_)
TrimStart(text) ==
    IF text # <<>> /\ Head(text) = Blank THEN TrimStart(Tail(text)) ELSE text

RECURSIVE TrimEnd(_)
TrimEnd(text) ==
    IF text # <<>> /\ text[Len(text)] = Blank
    THEN TrimEnd(SubSeq(text, 1, Len(text) - 1))
    ELSE text

\* String.prototype.trim
Trim(text) == TrimEnd(TrimStart(text))

Act(name, arg, toast) == [name |-> name, arg |-> arg, toast |-> toast]

NoInvoke == [made |-> FALSE, ingredients |-> <<>>]

PageMounted ==
    /\ ingredients = <<>>
    /\ currentIngredient = <<>>
    /\ isLoading = FALSE
    /\ inFlight = 0
    /\ lastInvoke = NoInvoke
    /\ route = "/"
    /\ pageAct = Act("none", <<>>, "")

\* onChange of the input field
setCurrentIngredient(text) ==
    /\ route = "/"
    /\ currentIngredient' = text
    /\ pageAct' = Act("setCurrentIngredient", <<>>, "")
    /\ UNCHANGED <<ingredients, isLoading, inFlight, lastInvoke, route, nonPageVars>>

\* Variant of addIngredient's effect without the includes test.
AddedAgain(list, text) ==
    IF Trim(text) # <<>>
    THEN [ingredients |-> Append(list, Trim(text)), currentIngredient |-> <<>>]
    ELSE [ingredients |-> list, currentIngredient |-> text]

\* The list and the input field after addIngredient.
Added(list, text) ==
    IF Trim(text) # <<>> /\ Trim(text) \notin Range(list)
    THEN [ingredients |-> Append(list, Trim(text)), currentIngredient |-> <<>>]
    ELSE [ingredients |-> list, currentIngredient |-> text]

addIngredient ==
    /\ route = "/"
    /\ Len(Added(ingredients, currentIngredient).ingredients) <= MaxIngredients
    /\ ingredients' = Added(ingredients, currentIngredient).ingredients
    /\ currentIngredient' = Added(ingredients, currentIngredient).currentIngredient
    /\ pageAct' = Act("addIngredient", <<>>, "")
    /\ UNCHANGED <<isLoading, inFlight, lastInvoke, route, nonPageVars>>

\* ingredients.filter((i) => i !== ingredient)
Removed(list, ingredient) == SelectSeq(list, LAMBDA i : i # ingredient)

removeIngredient(ingredient) ==
    /\ route = "/"
    /\ ingredients' = Removed(ingredients, ingredient)
    /\ pageAct' = Act("removeIngredient", ingredient, "")
    /\ UNCHANGED <<currentIngredient, isLoading, inFlight, lastInvoke, route,
                   nonPageVars>>

handleReset ==
    /\ route = "/"
    /\ ingredients' = <<>>
    /\ currentIngredient' = <<>>
    /\ pageAct' = Act("handleReset", <<>>, "")
    /\ UNCHANGED <<isLoading, inFlight, lastInvoke, route, nonPageVars>>

\* Variant of generateRecipe's test that never finds the list empty.
NothingToCookNever(list) == FALSE

\* if (ingredients.length === 0)
NothingToCook(list) == Len(list) = 0

\* generateRecipe up to its await: the early return, or the call.
generateRecipe ==
    /\ route = "/"
    /\ IF NothingToCook(ingredients)
       THEN /\ pageAct' = Act("generateRecipe", <<>>, "Add some ingredients")
            /\ UNCHANGED <<isLoading, inFlight, lastInvoke>>
       ELSE /\ inFlight < MaxPending
            /\ isLoading' = TRUE
            /\ inFlight' = inFlight + 1
            /\ lastInvoke' = [made |-> TRUE, ingredients |-> ingredients]
            /\ pageAct' = Act("generateRecipe", <<>>, "")
    /\ UNCHANGED <<ingredients, currentIngredient, route, nonPageVars>>

\* What functions.invoke resolves to: an error, data with a recipe, or
\* data without one.
InvokeResults == {"error", "recipe", "norecipe"}

\* generateRecipe after its await, through the finally block.
invokeSettled(result) ==
    /\ inFlight > 0
    /\ inFlight' = inFlight - 1
    /\ isLoading' = FALSE
    /\ route' = IF result = "recipe" THEN "/recipe" ELSE route
    /\ pageAct' = Act("generateRecipe",  <<>>,
                      CASE result = "recipe" -> "Recipe generated!"
                        [] result = "error" -> "Error"
                        [] OTHER -> "")
    /\ UNCHANGED <<ingredients, currentIngredient, lastInvoke, nonPageVars>>

----------------------------------------------------------------------------
(* The SavedRecipes page.  A saved recipe is known by its id.  The page's  *)
(* isLoading is the negation of fetched.settled.  A handleDelete call      *)
(* keeps the `recipes` of the render it was started from.                  *)
MaxDeletes == 2

NotFetched == [settled |-> FALSE, ok |-> FALSE, list |-> <<>>]

\* The ids of the user's saved recipes.
RecipeIds == {"r1", "r2", "r3"}

\* The lists the select can resolve to: rows in any order, none twice.
FetchedLists ==
    {l \in UNION {[1..n -> RecipeIds] : n \in 0..Cardinality(RecipeIds)} :
        \A j, k \in 1..Len(l) : j # k => l[j] # l[k]}

SavedMounted ==
    /\ recipes = <<>>
    /\ fetched = NotFetched
    /\ deleting = {}
    /\ deleted = {}

\* fetchSavedRecipes after its awaits: setRecipes(data || []), or the toast.
fetchSettled(ok, list) ==
    /\ ~fetched.settled
    /\ fetched' = [settled |-> TRUE, ok |-> ok, list |-> IF ok THEN list ELSE <<>>]
    /\ recipes' = IF ok THEN list ELSE recipes
    /\ UNCHANGED <<deleting, deleted, nonSavedVars>>

\* handleDelete up to its await, started from the delete button of a
\* recipe shown.
handleDelete(id) ==
    /\ id \in Range(recipes)
    /\ Cardinality(deleting) < MaxDeletes
    /\ [id |-> id, recipes |-> recipes] \notin deleting
    /\ deleting' = deleting \cup {[id |-> id, recipes |-> recipes]}
    /\ UNCHANGED <<recipes, fetched, deleted, nonSavedVars>>

\* handleDelete after its await: setRecipes(recipes.filter(...)) with the
\* `recipes` the call was started with, or the catch block.
deleteSettled(call, error) ==
    /\ call \in deleting
    /\ deleting' = deleting \ {call}
    /\ recipes' = IF error THEN recipes
                  ELSE SelectSeq(call.recipes, LAMBDA r : r # call.id)
    /\ deleted' = IF error THEN deleted ELSE deleted \cup {call.id}
    /\ UNCHANGED <<fetched, nonSavedVars>>

----------------------------------------------------------------------------
(* State machine.                                                          *)
ProxyInit ==
    /\ apiKey \in EnvValues
    /\ pc = [i \in Invocations |-> "idle"]
    /\ req = [i \in Invocations |-> NoRequest]
    /\ keySeen = [i \in Invocations |-> [read |-> FALSE, value |-> Undefined]]
    /\ sent = [i \in Invocations |-> <<>>]
    /\ upstream = [i \in Invocations |-> NoOutcome]
    /\ bodyRead = [i \in Invocations |-> FALSE]
    /\ resp = [i \in Invocations |-> NoResponse]
    /\ log = [i \in Invocations |-> <<>>]

Init == ProxyInit /\ EmptyTable /\ PageMounted /\ SavedMounted

\* An operator sets, clears or changes the secret.
Configure(v) ==
    /\ v # apiKey
    /\ apiKey' = v
    /\ UNCHANGED <<pc, req, keySeen, sent, upstream, bodyRead, resp, log, otherVars>>

\* The platform starts the handler on request r; it runs to its first await.
Receive(i, r) ==
    /\ pc[i] = "idle"
    /\ req' = [req EXCEPT ![i] = r]
    /\ IF IsPreflight(r)
       THEN /\ pc' = [pc EXCEPT ![i] = "done"]
            /\ resp' = [resp EXCEPT ![i] = OptionsResponse]
            /\ UNCHANGED bodyRead
       ELSE /\ pc' = [pc EXCEPT ![i] = "awaitBody"]
            /\ bodyRead' = [bodyRead EXCEPT ![i] = TRUE]
            /\ UNCHANGED resp
    /\ UNCHANGED <<apiKey, keySeen, sent, upstream, log, otherVars>>

\* req.json() settles; the handler runs to the fetch call or returns.
BodySettled(i) ==
    /\ pc[i] = "awaitBody"
    /\ LET step == AfterBody(req[i].body, apiKey)
       IN  /\ pc' = [pc EXCEPT ![i] = step.pc]
           /\ keySeen' = [keySeen EXCEPT ![i] =
                             IF step.keyRead
                             THEN [read |-> TRUE, value |-> apiKey]
                             ELSE @]
           /\ sent' = [sent EXCEPT ![i] = @ \o step.sent]
           /\ resp' = [resp EXCEPT ![i] = step.resp]
           /\ log' = [log EXCEPT ![i] = @ \o step.log]
    /\ UNCHANGED <<apiKey, req, upstream, bodyRead, otherVars>>

\* The upstream call settles as u; the handler reads the body and returns.
UpstreamSettled(i, u) ==
    /\ pc[i] = "awaitFetch"
    /\ upstream' = [upstream EXCEPT ![i] = u]
    /\ LET step == AfterUpstream(u)
       IN  /\ resp' = [resp EXCEPT ![i] = step.resp]
           /\ log' = [log EXCEPT ![i] = @ \o step.log]
    /\ pc' = [pc EXCEPT ![i] = "done"]
    /\ UNCHANGED <<apiKey, req, keySeen, sent, bodyRead, otherVars>>

Next ==
    \/ \E v \in EnvValues : Configure(v)
    \/ \E i \in Invocations, r \in Requests : Receive(i, r)
    \/ \E i \in Invocations : BodySettled(i)
    \/ \E i \in Invocations, u \in Outcomes : UpstreamSettled(i, u)

Spec == Init /\ [][Next]_vars

----------------------------------------------------------------------------
(* The prompt alone: one invocation serves a POST whose ingredient list is *)
(* any list of at most MaxPromptLen strings, repeats, differing case and   *)
(* surrounding blanks included, and runs to the fetch call.                *)
MaxPromptLen == 3

PromptWords == {"chicken", "rice", " rice", "Chicken"}

PromptLists == UNION {[1..n -> PromptWords] : n \in 0..MaxPromptLen}

PromptNext ==
    \/ \E l \in PromptLists :
          Receive(1, [method |-> "POST",
                      body |-> [parses |-> TRUE, hasList |-> TRUE, ingredients |-> l]])
    \/ BodySettled(1)

PromptSpec == Init /\ [][PromptNext]_vars

----------------------------------------------------------------------------
(* The table alone: authenticated users run statements in any order.       *)
StoreInit == ProxyInit /\ apiKey = Undefined /\ EmptyTable /\ PageMounted /\ SavedMounted

StoreSpec == StoreInit /\ [][StoreNext]_vars

----------------------------------------------------------------------------
(* The Index page's list editing alone.                                    *)
IndexNext ==
    \/ \E text \in Texts : setCurrentIngredient(text)
    \/ addIngredient
    \/ \E ingredient \in Range(ingredients) : removeIngredient(ingredient)
    \/ handleReset

IndexInit == ProxyInit /\ apiKey = Undefined /\ EmptyTable /\ PageMounted /\ SavedMounted

IndexSpec == IndexInit /\ [][IndexNext]_vars

----------------------------------------------------------------------------
(* The Index page with generation, beside the proxy serving POST requests  *)
(* of any client up to its fetch call.                                     *)
PageTexts == {<<"a">>, <<"a", "a">>}

PageNext ==
    \/ \E text \in PageTexts : setCurrentIngredient(text)
    \/ addIngredient
    \/ \E ingredient \in Range(ingredients) : removeIngredient(ingredient)
    \/ handleReset
    \/ generateRecipe
    \/ \E result \in InvokeResults : invokeSettled(result)
    \/ \E l \in IngredientLists :
          Receive(1, [method |-> "POST",
                      body |-> [parses |-> TRUE, hasList |-> TRUE, ingredients |-> l]])
    \/ BodySettled(1)

PageSpec == Init /\ [][PageNext]_vars

----------------------------------------------------------------------------
(* The SavedRecipes page alone.                                            *)
SavedNext ==
    \/ \E list \in FetchedLists : fetchSettled(TRUE, list)
    \/ fetchSettled(FALSE, <<>>)
    \/ \E id \in RecipeIds : handleDelete(id)
    \/ \E call \in deleting, error \in BOOLEAN : deleteSettled(call, error)

SavedInit == ProxyInit /\ apiKey = Undefined /\ EmptyTable /\ PageMounted /\ SavedMounted

SavedSpec == SavedInit /\ [][SavedNext]_vars

----------------------------------------------------------------------------
(* Properties.                                                             *)
Done(i) == pc[i] = "done"

\* Invocation i's upstream call returned a response with this status.
Returned429(i) == upstream[i].kind = "response" /\ upstream[i].status = 429
Returned402(i) == upstream[i].kind = "response" /\ upstream[i].status = 402
ReturnedOtherFailure(i) ==
    /\ upstream[i].kind = "response"
    /\ ~(upstream[i].status >= 200 /\ upstream[i].status <= 299)
    /\ upstream[i].status \notin {429, 402}
ReturnedContent(i) ==
    /\ upstream[i].kind = "response"
    /\ upstream[i].status >= 200 /\ upstream[i].status <= 299
    /\ upstream[i].body.form = "completion"

\* A non-OPTIONS request with a parseable body served under a configured
\* credential.
ProxyCall(i) ==
    /\ req[i].method = "POST"
    /\ req[i].body.parses
    /\ keySeen[i].read
    /\ keySeen[i].value \notin {<<>>, <<"">>}

IsErrorBody(r, message) ==
    r.body.kind = "error" /\ r.body.error = message /\ r.body.recipe.kind = "none"

HasCors(r) ==
    /\ {"Access-Control-Allow-Origin", "Access-Control-Allow-Headers"}
           \subseteq DOMAIN r.headers
    /\ r.headers["Access-Control-Allow-Origin"] = "*"
    /\ r.headers["Access-Control-Allow-Headers"] =
           "authorization, x-client-info, apikey, content-type"

\* C1: an upstream 429 is answered with status 429 and the body
\* { error: "Rate limit exceeded. Please try again later." }.
C1_RateLimit ==
    \A i \in Invocations :
        Returned429(i) =>
            /\ Done(i)
            /\ resp[i].status = 429
            /\ IsErrorBody(resp[i], <<"Rate limit exceeded. Please try again later.">>)

C1_Witness ==
    \E i \in Invocations : ProxyCall(i) /\ Returned429(i) /\ resp[i].status = 429

\* C2: an upstream 402 is answered with status 402 and the body
\* { error: "Payment required. Please add credits to your workspace." }.
C2_PaymentRequired ==
    \A i \in Invocations :
        Returned402(i) =>
            /\ Done(i)
            /\ resp[i].status = 402
            /\ IsErrorBody(resp[i],
                   <<"Payment required. Please add credits to your workspace.">>)

C2_Witness ==
    \E i \in Invocations : ProxyCall(i) /\ Returned402(i) /\ resp[i].status = 402

\* C3 as stated: any other upstream failure status is answered with a 500
\* whose error message carries neither the upstream status nor the upstream
\* body.
C3_Original ==
    \A i \in Invocations :
        ReturnedOtherFailure(i) =>
            /\ resp[i].status = 500
            /\ resp[i].body.kind = "error"
            /\ ToString(upstream[i].status) \notin Range(resp[i].body.error)
            /\ upstream[i].body.text \notin Range(resp[i].body.error)

\* C3 amended: any other upstream failure status s is answered with a 500
\* whose error message is "AI gateway error: s"; the upstream body is logged
\* (with the status) and is not in the response, the upstream status is.
C3_OtherFailure ==
    \A i \in Invocations :
        ReturnedOtherFailure(i) =>
            /\ Done(i)
            /\ resp[i].status = 500
            /\ IsErrorBody(resp[i],
                   <<"AI gateway error: ", ToString(upstream[i].status)>>)
            /\ upstream[i].body.text \notin Range(resp[i].body.error)
            /\ \E k \in 1..Len(log[i]) :
                   /\ log[i][k][1] = "error"
                   /\ ToString(upstream[i].status) \in Range(log[i][k])
                   /\ upstream[i].body.text \in Range(log[i][k])

C3_Witness ==
    \E i \in Invocations :
        /\ ReturnedOtherFailure(i)
        /\ upstream[i].status = 503
        /\ resp[i].status = 500
        /\ "503" \in Range(resp[i].body.error)

\* C4: a successful upstream call whose message content does not parse as
\* JSON is answered with status 500 and an { error } body, never with 200.
C4_MalformedContent ==
    \A i \in Invocations :
        (ReturnedContent(i) /\ ~JSONParse(upstream[i].body.text).ok) =>
            /\ Done(i)
            /\ resp[i].status = 500
            /\ resp[i].body.kind = "error"
            /\ resp[i].body.recipe.kind = "none"

C4_Witness ==
    \E i \in Invocations :
        /\ ReturnedContent(i)
        /\ upstream[i].body.text = "Here is your recipe: Chicken Rice Bowl"
        /\ resp[i].status = 500

\* C5: a request whose handler finds the credential absent is answered with
\* status 500 and { error: "LOVABLE_API_KEY is not configured" } and issues
\* no upstream call; a request whose handler finds the credential present is
\* not answered with that error and issues its upstream call, whatever
\* happened to other requests.
C5_MissingCredential ==
    \A i \in Invocations :
        /\ (req[i].method = "POST" /\ req[i].body.parses /\ keySeen[i].read
              /\ keySeen[i].value \in {<<>>, <<"">>}) =>
                /\ Done(i)
                /\ resp[i].status = 500
                /\ IsErrorBody(resp[i], <<"LOVABLE_API_KEY is not configured">>)
                /\ sent[i] = <<>>
                /\ upstream[i].kind = "none"
        /\ (ProxyCall(i) /\ req[i].body.hasList) =>
                /\ Len(sent[i]) = 1
                /\ sent[i][1].authorization = <<"Bearer ">> \o keySeen[i].value
                /\ resp[i].body.error # <<"LOVABLE_API_KEY is not configured">>

C5_Witness ==
    \E i, j \in Invocations :
        /\ keySeen[i].read /\ keySeen[i].value = <<>>
        /\ resp[i].status = 500
        /\ ProxyCall(j) /\ Done(j) /\ resp[j].status = 200

\* The Recipe shape: every required field present with its type.
IsRecipe(v) ==
    /\ v.kind = "object"
    /\ v.types["name"] = "string"
    /\ v.types["cookingTime"] = "integer"
    /\ v.types["difficulty"] = "string"
    /\ v.types["servings"] = "integer"
    /\ v.types["macros"] = "object"
    /\ \A f \in {"macros.calories", "macros.protein", "macros.carbs", "macros.fats"} :
           v.types[f] = "integer"
    /\ v.types["ingredients"] = "array<string>"
    /\ v.types["instructions"] = "array<string>"

\* C6: for a non-empty ingredient list, the recipe of a 200 response has
\* every required field of the Recipe shape with the right type.
C6_RecipeShape ==
    \A i \in Invocations :
        (Done(i) /\ req[i].body.hasList /\ req[i].body.ingredients # <<>>
           /\ resp[i].body.kind = "recipe") =>
            IsRecipe(resp[i].body.recipe)

\* C7: content that parses is answered with status 200 and { recipe: v },
\* v being the parsed content as it is, whatever its shape.
C7_PassThrough ==
    \A i \in Invocations :
        (ReturnedContent(i) /\ JSONParse(upstream[i].body.text).ok) =>
            /\ Done(i)
            /\ resp[i].status = 200
            /\ resp[i].body.kind = "recipe"
            /\ resp[i].body.error = <<>>
            /\ resp[i].body.recipe = JSONParse(upstream[i].body.text).value

C7_Witness ==
    \E i \in Invocations :
        /\ ReturnedContent(i)
        /\ resp[i].status = 200
        /\ resp[i].body.recipe.kind = "object"
        /\ resp[i].body.recipe.types["macros"] = "absent"

\* C8: an OPTIONS request is answered with status 200, an empty body and the
\* CORS headers, without parsing the body, reading the credential or calling
\* upstream.
C8_Preflight ==
    \A i \in Invocations :
        req[i].method = "OPTIONS" =>
            /\ Done(i)
            /\ resp[i].status = 200
            /\ resp[i].body.kind = "empty"
            /\ HasCors(resp[i])
            /\ ~bodyRead[i]
            /\ ~keySeen[i].read
            /\ sent[i] = <<>>
            /\ log[i] = <<>>

C8_Witness ==
    \E i \in Invocations :
        /\ req[i].method = "OPTIONS"
        /\ ~req[i].body.parses
        /\ apiKey = <<>>
        /\ resp[i].status = 200

\* C9: every response returned carries the two CORS headers.
C9_Cors ==
    \A i \in Invocations : Done(i) => HasCors(resp[i])

C9_Witness ==
    \E i, j \in Invocations :
        /\ Done(i) /\ req[i].method = "OPTIONS"
        /\ Done(j) /\ resp[j].status = 500 /\ HasCors(resp[j])

\* C10: an invocation issues at most one upstream call, none after its call
\* has settled (so none after a failure), and two invocations with the same
\* request, the same credential read and the same upstream result return
\* the same response.
C10_SingleShot ==
    /\ \A i \in Invocations :
        /\ Len(sent[i]) <= 1
        /\ upstream[i].kind # "none" => Len(sent[i]) = 1
    /\ \A i, j \in Invocations :
        (Done(i) /\ Done(j) /\ req[i] = req[j] /\ keySeen[i] = keySeen[j]
           /\ upstream[i] = upstream[j]) =>
            resp[i] = resp[j] /\ sent[i] = sent[j]

C10_Witness ==
    \E i, j \in Invocations :
        /\ i # j
        /\ Done(i) /\ upstream[i].kind = "rejected" /\ Len(sent[i]) = 1
        /\ Done(j) /\ upstream[j].kind = "response" /\ upstream[j].status = 503
        /\ Len(sent[j]) = 1

\* C11: the user message of every upstream request is the fixed lead-in
\* followed by the request's ingredients, each one as given and in the given
\* order, with ", " between neighbours and nowhere else.
C11_PromptJoin ==
    \A i \in Invocations :
        sent[i] # <<>> =>
            LET l == req[i].body.ingredients
                u == sent[i][1].user
            IN  /\ u[1] = "Create a recipe using these ingredients: "
                /\ Len(u) = 1 + (IF Len(l) = 0 THEN 0 ELSE 2 * Len(l) - 1)
                /\ \A k \in 1..Len(l) : u[2 * k] = l[k]
                /\ \A k \in 1..(Len(l) - 1) : u[2 * k + 1] = ", "

C11_Witness ==
    \E i \in Invocations :
        /\ req[i].body.ingredients = <<"chicken", "rice", "chicken">>
        /\ sent[i] # <<>>
        /\ SubSeq(sent[i][1].user, 2, 4) = <<"chicken", ", ", "rice">>

\* C12: a statement returns only rows owned by the user who ran it, and a
\* row that a statement creates, changes or removes is owned by that user,
\* before the statement if it existed and after it if it exists.
C12_OwnRowsOnly ==
    /\ [](\A r \in lastOp.returned : r.user_id = lastOp.caller)
    /\ [][\A id \in Ids :
            rows'[id] # rows[id] =>
                /\ rows[id].present => rows[id].user_id = lastOp'.caller
                /\ rows'[id].present => rows'[id].user_id = lastOp'.caller]_vars

C12_Witness ==
    \E id \in Ids :
        /\ lastOp.kind = "delete"
        /\ lastOp.caller = "alice"
        /\ id \in lastOp.filter
        /\ rows[id].present
        /\ rows[id].user_id = "bob"

\* C13: every functions.invoke call of the Index page carries a non-empty
\* list; while the list is empty no step issues a call or turns isLoading
\* on; and the proxy, given an empty list and a credential, issues its
\* upstream call.
C13_EmptyListAtUiOnly ==
    /\ [](lastInvoke.made => lastInvoke.ingredients # <<>>)
    /\ [][ingredients = <<>> =>
            /\ inFlight' <= inFlight
            /\ lastInvoke' = lastInvoke
            /\ (~isLoading => ~isLoading')]_vars
    /\ [](\A i \in Invocations :
            (ProxyCall(i) /\ req[i].body.hasList /\ req[i].body.ingredients = <<>>) =>
                /\ Len(sent[i]) = 1
                /\ sent[i][1].user = <<"Create a recipe using these ingredients: ">>
                /\ resp[i].status \notin 400..499)

C13_Witness ==
    /\ pageAct.name = "generateRecipe"
    /\ pageAct.toast = "Add some ingredients"
    /\ ingredients = <<>>
    /\ ~isLoading
    /\ lastInvoke.made
    /\ inFlight = 0
    /\ \E i \in Invocations :
        /\ ProxyCall(i)
        /\ req[i].body.hasList /\ req[i].body.ingredients = <<>>
        /\ pc[i] = "awaitFetch"

\* Where an entry stands in a list without repeats (0 when absent).
Position(list, entry) ==
    IF entry \in Range(list)
    THEN CHOOSE k \in 1..Len(list) : list[k] = entry
    ELSE 0

\* C15: every entry of the ingredient list is non-empty and trimmed and
\* occurs once; addIngredient on a blank or already listed text changes
\* neither the list nor the input field; removeIngredient(x) removes x and
\* keeps the other entries in their order.
C15_ListInvariants ==
    /\ [](\A k \in 1..Len(ingredients) :
            /\ ingredients[k] # <<>>
            /\ Head(ingredients[k]) # Blank
            /\ ingredients[k][Len(ingredients[k])] # Blank
            /\ \A j \in 1..Len(ingredients) : j # k => ingredients[j] # ingredients[k])
    /\ [][(/\ pageAct'.name = "addIngredient"
           /\ \/ \A k \in 1..Len(currentIngredient) : currentIngredient[k] = Blank
              \/ \E k \in 1..Len(ingredients) :
                    /\ Len(currentIngredient) >= Len(ingredients[k])
                    /\ \E from \in 1..(Len(currentIngredient) - Len(ingredients[k]) + 1) :
                        /\ SubSeq(currentIngredient, from,
                                  from + Len(ingredients[k]) - 1) = ingredients[k]
                        /\ \A n \in 1..Len(currentIngredient) :
                            (n < from \/ n >= from + Len(ingredients[k]))
                                => currentIngredient[n] = Blank)
          => /\ ingredients' = ingredients
             /\ currentIngredient' = currentIngredient]_vars
    /\ [][pageAct'.name = "removeIngredient" =>
            /\ pageAct'.arg \notin Range(ingredients')
            /\ Range(ingredients') = Range(ingredients) \ {pageAct'.arg}
            /\ Len(ingredients') = Cardinality(Range(ingredients'))
            /\ \A j, k \in 1..Len(ingredients') :
                j < k => Position(ingredients, ingredients'[j])
                            < Position(ingredients, ingredients'[k])]_vars

C15_Witness ==
    /\ pageAct.name = "removeIngredient"
    /\ pageAct.arg = <<"a", "a">>
    /\ ingredients = <<<<"a">>, <<"a", Blank, "a">>>>
    /\ currentIngredient = <<Blank, "a", Blank>>

\* C14: once the list is fetched, the list shown is the fetched list
\* without the ids whose delete has succeeded, whatever the interleaving of
\* handleDelete calls.
C14_LocalListExact ==
    (fetched.settled /\ fetched.ok) =>
        recipes = SelectSeq(fetched.list, LAMBDA r : r \notin deleted)

====
